---- MODULE Spec2Model ----
(***************************************************************************)
(* Lifecycle state machine of aio_pika.channel.Channel.                    *)
(*                                                                         *)
(* One Channel object is shared by NumTasks asyncio tasks.  Every task is  *)
(* either idle or inside one call on the Channel; a call is cut into steps *)
(* at its await points, because asyncio runs a coroutine without           *)
(* interruption between two awaits.  The underlying channels (aiormq       *)
(* channels wrapped in UnderlayChannel) are numbered 1..MaxChannels in the *)
(* order in which create_channel returns them.                             *)
(***************************************************************************)
EXTENDS Integers, Sequences, FiniteSets, TLC

\* Number of tasks that call the Channel concurrently.
NumTasks == 2
\* Number of underlying channels create_channel can hand out in one run.
MaxChannels == 2
\* Number of calls the tasks make on the Channel in one run.
MaxCalls == 3

Tasks == 1..NumTasks
Handles == 1..MaxChannels

\* Value of the lock when nobody holds it.
NoTask == 0
\* Value of _channel while the attribute does not exist (never assigned,
\* or removed by "del self._channel").
NoChannel == 0

VARIABLES
    ready,                \* self.ready: the asyncio.Event latch
    operation_lock,       \* self.__operation_lock: the task holding it, or NoTask
    waiters,              \* FIFO queue of the tasks blocked on the lock
    _is_closed_by_user,   \* self._is_closed_by_user
    _channel,             \* self._channel: a handle, or NoChannel
    uchan,                \* per handle: "unopened", "open" or "closed"
    on_close,             \* per handle: position of its __on_close callback
    on_return_callbacks,  \* handles on which _on_return is registered
    pc,                   \* per task: position inside its current call
    op,                   \* per task: the call it is in, or made last
    result,               \* per task: outcome of its last finished call
    target,               \* per task: handle its call in flight was sent to
    calls,                \* number of calls made so far
    publisher_confirms,   \* self.publisher_confirms
    close_reason,         \* per handle: the exc its close() was called with
    exc,                  \* per task: the exc argument of its close call
    entity                \* per task: the Exchange or Queue its call built

vars == <<ready, operation_lock, waiters, _is_closed_by_user, _channel, uchan,
          on_close, on_return_callbacks, pc, op, result, target, calls,
          publisher_confirms, close_reason, exc, entity>>

\* The fields of the Channel object and of its underlying channels.
chanState == <<ready, _is_closed_by_user, _channel, uchan, on_close,
               on_return_callbacks, publisher_confirms, close_reason>>

\* The arguments and the value of the call a task is in.
callData == <<exc, entity>>

LifecycleOps == {"initialize", "close", "reopen"}
DeclarativeOps == {"set_qos", "queue_delete", "exchange_delete", "flow",
                   "declare_exchange", "declare_queue", "get_exchange"}
OtherOps == {"transaction", "__aenter__"}

\* Outcomes of a call:
\*   "ok"                  returned normally
\*   "AlreadyInitialized"  RuntimeError("Already initialized")
\*   "ClosedChannel"       RuntimeError("Can't initialize closed channel")
\*   "NotOpened"           ChannelInvalidStateError("Channel was not opened")
\*   "Closed"              ChannelInvalidStateError("Channel has been closed")
\*   "AttributeError"      read of self._channel while the attribute is absent
\*   "Error"               error raised by the underlying channel or transport,
\*                         a timeout, or a cancellation
\*   "ConfirmsEnabled"     RuntimeError("Cannot create transaction when
\*                         publisher confirms are enabled")
Outcomes == {"none", "ok", "AlreadyInitialized", "ClosedChannel", "NotOpened",
             "Closed", "AttributeError", "Error", "ConfirmsEnabled"}

\* What a call can build: an Exchange or a Queue, with its passive flag
\* (every other parameter at its default), or a Transaction.
Entities == {"none", "exchange", "exchange_passive", "queue", "queue_passive",
             "transaction"}

TypeOK ==
    /\ ready \in BOOLEAN
    /\ operation_lock \in Tasks \cup {NoTask}
    /\ waiters \in Seq(Tasks)
    /\ _is_closed_by_user \in BOOLEAN
    /\ _channel \in Handles \cup {NoChannel}
    /\ uchan \in [Handles -> {"unopened", "open", "closed"}]
    /\ on_close \in [Handles -> {"idle", "running", "finished"}]
    /\ on_return_callbacks \subseteq Handles
    /\ pc \in [Tasks -> {"idle", "wait", "locked", "open", "closing", "inflight"}]
    /\ op \in [Tasks -> LifecycleOps \cup DeclarativeOps \cup OtherOps \cup {"none"}]
    /\ result \in [Tasks -> Outcomes]
    /\ target \in [Tasks -> Handles \cup {NoChannel}]
    /\ calls \in 0..MaxCalls
    /\ publisher_confirms \in BOOLEAN
    /\ close_reason \in [Handles -> {"unasked", "none", "exception"}]
    /\ exc \in [Tasks -> {"none", "exception"}]
    /\ entity \in [Tasks -> Entities]

----------------------------------------------------------------------------
\* Properties of the Channel (pure functions of its fields)

\* Channel.is_initialized
is_initialized == ready

\* Channel.is_closed, as a function of the fields it reads.  The result is
\* "True", "False", or "AttributeError" when self._channel is read while the
\* attribute is absent.
is_closed_of(rdy, cbu, ch, uc) ==
    IF ~rdy \/ cbu THEN "True"
    ELSE IF ch = NoChannel THEN "AttributeError"
    ELSE IF uc[ch] = "closed" THEN "True" ELSE "False"

is_closed == is_closed_of(ready, _is_closed_by_user, _channel, uchan)

\* Channel.channel, as a function of the fields it reads: the exception the
\* accessor raises, or "none" when it returns self._channel.channel.
channel_of(rdy, cbu, ch, uc) ==
    IF ~rdy THEN "NotOpened"
    ELSE IF is_closed_of(rdy, cbu, ch, uc) = "AttributeError" THEN "AttributeError"
    ELSE IF is_closed_of(rdy, cbu, ch, uc) = "True" THEN "Closed"
    ELSE "none"

channel == channel_of(ready, _is_closed_by_user, _channel, uchan)

\* initialize without its "Already initialized" test.
initialize_check_no_latch_test ==
    IF _is_closed_by_user THEN "ClosedChannel" ELSE "none"

\* initialize without its "Can't initialize closed channel" test.
initialize_check_no_flag_test ==
    IF is_initialized THEN "AlreadyInitialized" ELSE "none"

\* The checks initialize makes before it asks for the lock.
initialize_check ==
    IF is_initialized THEN "AlreadyInitialized"
    ELSE IF _is_closed_by_user THEN "ClosedChannel"
    ELSE "none"

----------------------------------------------------------------------------
\* The operation lock (asyncio.Lock: FIFO, handed to the first waiter)

\* A lock that never reports itself taken.
locked_never == FALSE

locked == operation_lock # NoTask

\* "async with self.__operation_lock" entered by task p: the lock is taken at
\* once when it is free, otherwise p queues behind the earlier waiters.
Acquire(p) ==
    IF ~locked
    THEN /\ operation_lock' = p
         /\ pc' = [pc EXCEPT ![p] = "locked"]
         /\ UNCHANGED waiters
    ELSE /\ waiters' = Append(waiters, p)
         /\ pc' = [pc EXCEPT ![p] = "wait"]
         /\ UNCHANGED operation_lock

\* Leaving the block without releasing the lock.
Release_keeps_lock(p) ==
    /\ pc' = [pc EXCEPT ![p] = "idle"]
    /\ UNCHANGED <<operation_lock, waiters>>

\* Leaving the "async with" block: the call of p is over and the lock goes
\* to the first waiter, if any.
Release(p) ==
    IF waiters = <<>>
    THEN /\ operation_lock' = NoTask
         /\ pc' = [pc EXCEPT ![p] = "idle"]
         /\ UNCHANGED waiters
    ELSE /\ operation_lock' = Head(waiters)
         /\ pc' = [pc EXCEPT ![p] = "idle", ![Head(waiters)] = "locked"]
         /\ waiters' = Tail(waiters)

----------------------------------------------------------------------------
\* The underlying channels

Unopened == {h \in Handles : uchan[h] = "unopened"}

\* The handle the next successful create_channel returns.
NextHandle == CHOOSE h \in Unopened : \A g \in Unopened : h <= g

\* An underlying channel closes: its closing future completes and the close
\* callback given to create_channel (Channel.__on_close) starts.
ChannelCloses(h) ==
    /\ uchan' = [uchan EXCEPT ![h] = "closed"]
    /\ on_close' = [on_close EXCEPT ![h] = IF @ = "idle" THEN "running" ELSE @]

Init ==
    /\ ready = FALSE
    /\ operation_lock = NoTask
    /\ waiters = <<>>
    /\ _is_closed_by_user = FALSE
    /\ _channel = NoChannel
    /\ uchan = [h \in Handles |-> "unopened"]
    /\ on_close = [h \in Handles |-> "idle"]
    /\ on_return_callbacks = {}
    /\ pc = [p \in Tasks |-> "idle"]
    /\ op = [p \in Tasks |-> "none"]
    /\ result = [p \in Tasks |-> "none"]
    /\ target = [p \in Tasks |-> NoChannel]
    /\ calls = 0
    /\ publisher_confirms = TRUE
    /\ close_reason = [h \in Handles |-> "unasked"]
    /\ exc = [p \in Tasks |-> "none"]
    /\ entity = [p \in Tasks |-> "none"]

----------------------------------------------------------------------------
\* A task starts a call on the Channel.
Call == calls < MaxCalls /\ calls' = calls + 1

\* Task p starts a call with no exc argument that builds no entity.
Plain(p) ==
    /\ exc' = [exc EXCEPT ![p] = "none"]
    /\ entity' = [entity EXCEPT ![p] = "none"]

----------------------------------------------------------------------------
\* Channel.initialize

\* The call: the two checks, then the request for the lock.
initialize(p) ==
    /\ pc[p] = "idle"
    /\ Call
    /\ op' = [op EXCEPT ![p] = "initialize"]
    /\ IF initialize_check # "none"
       THEN /\ result' = [result EXCEPT ![p] = initialize_check]
            /\ UNCHANGED <<pc, operation_lock, waiters>>
       ELSE /\ result' = [result EXCEPT ![p] = "none"]
            /\ Acquire(p)
    /\ Plain(p)
    /\ UNCHANGED <<chanState, target>>

\* Holding the lock, initialize enters _open and waits there for the
\* connection and for create_channel.
initialize_open(p) ==
    /\ pc[p] = "locked" /\ op[p] = "initialize"
    /\ pc' = [pc EXCEPT ![p] = "open"]
    /\ UNCHANGED <<chanState, operation_lock, waiters, op, result, target, calls, callData>>

\* create_channel returns: _open stores the handle, then initialize sets the
\* latch and runs _on_initialized, which goes through the channel accessor
\* and so can raise after the latch is set.
initialize_done(p) ==
    /\ pc[p] = "open" /\ op[p] = "initialize"
    /\ Unopened # {}
    /\ LET h == NextHandle
           uc == [uchan EXCEPT ![h] = "open"]
           err == channel_of(TRUE, _is_closed_by_user, h, uc)
       IN /\ uchan' = uc
          /\ _channel' = h
          /\ ready' = TRUE
          /\ IF err = "none"
             THEN /\ on_return_callbacks' = on_return_callbacks \cup {h}
                  /\ result' = [result EXCEPT ![p] = "ok"]
             ELSE /\ UNCHANGED on_return_callbacks
                  /\ result' = [result EXCEPT ![p] = err]
    /\ Release(p)
    /\ UNCHANGED <<_is_closed_by_user, on_close, op, target, calls, callData,
                   publisher_confirms, close_reason>>

\* _open raises (the transport fails, or the task is cancelled while it
\* waits): the lock is released and nothing else changes.
initialize_fail(p) ==
    /\ pc[p] = "open" /\ op[p] = "initialize"
    /\ result' = [result EXCEPT ![p] = "Error"]
    /\ Release(p)
    /\ UNCHANGED <<chanState, op, target, calls, callData>>

----------------------------------------------------------------------------
\* Channel.reopen

reopen(p) ==
    /\ pc[p] = "idle"
    /\ Call
    /\ op' = [op EXCEPT ![p] = "reopen"]
    /\ result' = [result EXCEPT ![p] = "none"]
    /\ Acquire(p)
    /\ Plain(p)
    /\ UNCHANGED <<chanState, target>>

\* Holding the lock: drop the handle, clear the flag, enter _open.
reopen_open(p) ==
    /\ pc[p] = "locked" /\ op[p] = "reopen"
    /\ _channel' = NoChannel
    /\ _is_closed_by_user' = FALSE
    /\ pc' = [pc EXCEPT ![p] = "open"]
    /\ UNCHANGED <<ready, uchan, on_close, on_return_callbacks, publisher_confirms,
                   close_reason,
                   operation_lock, waiters, op, result, target, calls, callData>>

\* create_channel returns: _open stores the handle, reopen sets the latch.
reopen_done(p) ==
    /\ pc[p] = "open" /\ op[p] = "reopen"
    /\ Unopened # {}
    /\ uchan' = [uchan EXCEPT ![NextHandle] = "open"]
    /\ _channel' = NextHandle
    /\ ready' = TRUE
    /\ result' = [result EXCEPT ![p] = "ok"]
    /\ Release(p)
    /\ UNCHANGED <<_is_closed_by_user, on_close, on_return_callbacks, op, target,
                   calls, callData, publisher_confirms, close_reason>>

reopen_fail(p) ==
    /\ pc[p] = "open" /\ op[p] = "reopen"
    /\ result' = [result EXCEPT ![p] = "Error"]
    /\ Release(p)
    /\ UNCHANGED <<chanState, op, target, calls, callData>>

----------------------------------------------------------------------------
\* Channel.close

close(p) ==
    /\ pc[p] = "idle"
    /\ Call
    /\ op' = [op EXCEPT ![p] = "close"]
    /\ result' = [result EXCEPT ![p] = "none"]
    /\ Acquire(p)
    /\ Plain(p)
    /\ UNCHANGED <<chanState, target>>

\* UnderlayChannel.close of handle h returns normally once the close callback
\* of h has finished: at once when it already has, otherwise after the
\* underlying channel closed and the callback ran.
underlay_close_returns(h) == on_close[h] = "finished"

\* close without its "if not self.is_initialized: return".
close_locked_no_latch_test(p) ==
    /\ pc[p] = "locked" /\ op[p] = "close"
    /\ IF _channel = NoChannel
       THEN /\ _is_closed_by_user' = TRUE
            /\ result' = [result EXCEPT ![p] = "AttributeError"]
            /\ Release(p)
            /\ UNCHANGED <<target, close_reason>>
       ELSE IF underlay_close_returns(_channel)
       THEN /\ _is_closed_by_user' = TRUE
            /\ result' = [result EXCEPT ![p] = "ok"]
            /\ Release(p)
            /\ UNCHANGED <<target, close_reason>>
       ELSE /\ target' = [target EXCEPT ![p] = _channel]
            /\ close_reason' = [close_reason EXCEPT ![_channel] = "none"]
            /\ pc' = [pc EXCEPT ![p] = "closing"]
            /\ UNCHANGED <<_is_closed_by_user, result, operation_lock, waiters>>
    /\ UNCHANGED <<ready, _channel, uchan, on_close, on_return_callbacks, op, calls,
                   callData, publisher_confirms>>

\* Holding the lock: return when the latch is clear; otherwise ask the
\* underlying channel to close, and set the flag whatever happens.
close_locked(p) ==
    /\ pc[p] = "locked" /\ op[p] = "close"
    /\ IF ~is_initialized
       THEN /\ result' = [result EXCEPT ![p] = "ok"]
            /\ Release(p)
            /\ UNCHANGED <<_is_closed_by_user, target, close_reason>>
       ELSE IF _channel = NoChannel
       THEN /\ _is_closed_by_user' = TRUE
            /\ result' = [result EXCEPT ![p] = "AttributeError"]
            /\ Release(p)
            /\ UNCHANGED <<target, close_reason>>
       ELSE IF underlay_close_returns(_channel)
       THEN /\ _is_closed_by_user' = TRUE
            /\ result' = [result EXCEPT ![p] = "ok"]
            /\ Release(p)
            /\ UNCHANGED <<target, close_reason>>
       ELSE /\ target' = [target EXCEPT ![p] = _channel]
            /\ close_reason' = [close_reason EXCEPT ![_channel] = "none"]
            /\ pc' = [pc EXCEPT ![p] = "closing"]
            /\ UNCHANGED <<_is_closed_by_user, result, operation_lock, waiters>>
    /\ UNCHANGED <<ready, _channel, uchan, on_close, on_return_callbacks, op, calls,
                   callData, publisher_confirms>>

\* The underlying channel carries out the close request of task p.
underlay_close(p) ==
    /\ pc[p] = "closing"
    /\ uchan[target[p]] = "open"
    /\ ChannelCloses(target[p])
    /\ UNCHANGED <<ready, _is_closed_by_user, _channel, on_return_callbacks,
                   publisher_confirms, close_reason,
                   operation_lock, waiters, pc, op, result, target, calls, callData>>

\* UnderlayChannel.close returns once the close callback has finished;
\* the finally clause of close sets the flag.
close_done(p) ==
    /\ pc[p] = "closing"
    /\ underlay_close_returns(target[p])
    /\ _is_closed_by_user' = TRUE
    /\ result' = [result EXCEPT ![p] = "ok"]
    /\ target' = [target EXCEPT ![p] = NoChannel]
    /\ Release(p)
    /\ UNCHANGED <<ready, _channel, uchan, on_close, on_return_callbacks, op, calls,
                   callData, publisher_confirms, close_reason>>

\* close with the flag set after the request instead of in a finally clause.
close_fail_no_finally(p) ==
    /\ pc[p] = "closing"
    /\ result' = [result EXCEPT ![p] = "Error"]
    /\ target' = [target EXCEPT ![p] = NoChannel]
    /\ Release(p)
    /\ UNCHANGED <<chanState, op, calls, callData>>

\* The close request raises (or the task is cancelled while it waits);
\* the finally clause of close sets the flag and the error propagates.
close_fail(p) ==
    /\ pc[p] = "closing"
    /\ _is_closed_by_user' = TRUE
    /\ result' = [result EXCEPT ![p] = "Error"]
    /\ target' = [target EXCEPT ![p] = NoChannel]
    /\ Release(p)
    /\ UNCHANGED <<ready, _channel, uchan, on_close, on_return_callbacks, op, calls,
                   callData, publisher_confirms, close_reason>>

----------------------------------------------------------------------------
\* Close events of the underlying channels and Channel.__on_close

\* The broker (or the transport) closes an open underlying channel.
peer_close(h) ==
    /\ uchan[h] = "open"
    /\ ChannelCloses(h)
    /\ UNCHANGED <<ready, _is_closed_by_user, _channel, on_return_callbacks,
                   publisher_confirms, close_reason,
                   operation_lock, waiters, pc, op, result, target, calls, callData>>

\* __on_close without its finally clause: the latch stays set.
__on_close_keeps_latch(h) ==
    /\ on_close[h] = "running"
    /\ on_close' = [on_close EXCEPT ![h] = "finished"]
    /\ UNCHANGED <<ready, _is_closed_by_user, _channel, uchan, on_return_callbacks,
                   publisher_confirms, close_reason,
                   operation_lock, waiters, pc, op, result, target, calls, callData>>

\* __on_close of handle h: the close callbacks have been dispatched (or the
\* dispatch raised); the finally clause clears the latch.
__on_close(h) ==
    /\ on_close[h] = "running"
    /\ on_close' = [on_close EXCEPT ![h] = "finished"]
    /\ ready' = FALSE
    /\ UNCHANGED <<_is_closed_by_user, _channel, uchan, on_return_callbacks,
                   publisher_confirms, close_reason,
                   operation_lock, waiters, pc, op, result, target, calls, callData>>

----------------------------------------------------------------------------
\* set_qos, queue_delete, exchange_delete, flow

\* Forward with the request queued behind the operation lock.
Forward_behind_lock(p, name) ==
    /\ pc[p] = "idle"
    /\ Call
    /\ op' = [op EXCEPT ![p] = name]
    /\ result' = [result EXCEPT ![p] = "none"]
    /\ Acquire(p)
    /\ Plain(p)
    /\ UNCHANGED <<chanState, target>>

\* "await self.channel.<request>(...)": the accessor is evaluated first; when
\* it raises the call is over, otherwise the request goes to the handle.
Forward(p, name) ==
    /\ pc[p] = "idle"
    /\ Call
    /\ op' = [op EXCEPT ![p] = name]
    /\ IF channel # "none"
       THEN /\ result' = [result EXCEPT ![p] = channel]
            /\ UNCHANGED <<pc, target>>
       ELSE /\ result' = [result EXCEPT ![p] = "none"]
            /\ target' = [target EXCEPT ![p] = _channel]
            /\ pc' = [pc EXCEPT ![p] = "inflight"]
    /\ Plain(p)
    /\ UNCHANGED <<chanState, operation_lock, waiters>>

set_qos(p) == Forward(p, "set_qos")

queue_delete(p) == Forward(p, "queue_delete")

exchange_delete(p) == Forward(p, "exchange_delete")

flow(p) == Forward(p, "flow")

\* The broker answers the request.
request_ok(p) ==
    /\ pc[p] = "inflight"
    /\ uchan[target[p]] = "open"
    /\ pc' = [pc EXCEPT ![p] = "idle"]
    /\ result' = [result EXCEPT ![p] = "ok"]
    /\ target' = [target EXCEPT ![p] = NoChannel]
    /\ UNCHANGED <<chanState, operation_lock, waiters, op, calls, callData>>

\* A failed request that also takes the Channel out of readiness.
request_fail_clears_latch(p) ==
    /\ pc[p] = "inflight"
    /\ pc' = [pc EXCEPT ![p] = "idle"]
    /\ result' = [result EXCEPT ![p] = "Error"]
    /\ target' = [target EXCEPT ![p] = NoChannel]
    /\ ready' = FALSE
    /\ UNCHANGED <<_is_closed_by_user, _channel, uchan, on_close,
                   on_return_callbacks, publisher_confirms, close_reason,
                   operation_lock, waiters, op, calls, callData>>

\* The request is rejected, times out, is cancelled, or its channel closed.
request_fail(p) ==
    /\ pc[p] = "inflight"
    /\ pc' = [pc EXCEPT ![p] = "idle"]
    /\ result' = [result EXCEPT ![p] = "Error"]
    /\ target' = [target EXCEPT ![p] = NoChannel]
    /\ UNCHANGED <<chanState, operation_lock, waiters, op, calls, callData>>

----------------------------------------------------------------------------

Next ==
    \/ \E p \in Tasks : initialize(p)
    \/ \E p \in Tasks : initialize_open(p)
    \/ \E p \in Tasks : initialize_done(p)
    \/ \E p \in Tasks : initialize_fail(p)
    \/ \E p \in Tasks : reopen(p)
    \/ \E p \in Tasks : reopen_open(p)
    \/ \E p \in Tasks : reopen_done(p)
    \/ \E p \in Tasks : reopen_fail(p)
    \/ \E p \in Tasks : close(p)
    \/ \E p \in Tasks : close_locked(p)
    \/ \E p \in Tasks : underlay_close(p)
    \/ \E p \in Tasks : close_done(p)
    \/ \E p \in Tasks : close_fail(p)
    \/ \E h \in Handles : peer_close(h)
    \/ \E h \in Handles : __on_close(h)
    \/ \E p \in Tasks : set_qos(p)
    \/ \E p \in Tasks : queue_delete(p)
    \/ \E p \in Tasks : exchange_delete(p)
    \/ \E p \in Tasks : flow(p)
    \/ \E p \in Tasks : request_ok(p)
    \/ \E p \in Tasks : request_fail(p)

Spec == Init /\ [][Next]_vars

----------------------------------------------------------------------------
\* declare_exchange, declare_queue, get_exchange

\* The call builds the entity e bound to this Channel, then awaits
\* e.declare(timeout), which sends the declare request of e through the
\* channel accessor: when the accessor raises the call is over, otherwise
\* the request goes to the handle.
Declare(p, name, e) ==
    /\ pc[p] = "idle"
    /\ Call
    /\ op' = [op EXCEPT ![p] = name]
    /\ exc' = [exc EXCEPT ![p] = "none"]
    /\ entity' = [entity EXCEPT ![p] = e]
    /\ IF channel # "none"
       THEN /\ result' = [result EXCEPT ![p] = channel]
            /\ UNCHANGED <<pc, target>>
       ELSE /\ result' = [result EXCEPT ![p] = "none"]
            /\ target' = [target EXCEPT ![p] = _channel]
            /\ pc' = [pc EXCEPT ![p] = "inflight"]
    /\ UNCHANGED <<chanState, operation_lock, waiters>>

\* The Exchange that declare_exchange builds from its passive argument.
Exchange(passive) == IF passive THEN "exchange_passive" ELSE "exchange"

\* The Queue that declare_queue builds from its passive argument.
Queue(passive) == IF passive THEN "queue_passive" ELSE "queue"

declare_exchange(p, passive) == Declare(p, "declare_exchange", Exchange(passive))

declare_queue(p, passive) == Declare(p, "declare_queue", Queue(passive))

\* get_exchange asking for a plain declaration instead of a passive one.
get_exchange_not_passive(p, ensure) ==
    IF ensure
    THEN Declare(p, "get_exchange", Exchange(FALSE))
    ELSE /\ pc[p] = "idle"
         /\ Call
         /\ op' = [op EXCEPT ![p] = "get_exchange"]
         /\ exc' = [exc EXCEPT ![p] = "none"]
         /\ entity' = [entity EXCEPT ![p] = Exchange(TRUE)]
         /\ result' = [result EXCEPT ![p] = "ok"]
         /\ UNCHANGED <<chanState, operation_lock, waiters, pc, target>>

\* ensure: declare_exchange(name, passive=True), on behalf of get_exchange;
\* otherwise a passive Exchange built locally and returned at once.
get_exchange(p, ensure) ==
    IF ensure
    THEN Declare(p, "get_exchange", Exchange(TRUE))
    ELSE /\ pc[p] = "idle"
         /\ Call
         /\ op' = [op EXCEPT ![p] = "get_exchange"]
         /\ exc' = [exc EXCEPT ![p] = "none"]
         /\ entity' = [entity EXCEPT ![p] = Exchange(TRUE)]
         /\ result' = [result EXCEPT ![p] = "ok"]
         /\ UNCHANGED <<chanState, operation_lock, waiters, pc, target>>

NextEntities ==
    \/ Next
    \/ \E p \in Tasks : \E passive \in BOOLEAN : declare_exchange(p, passive)
    \/ \E p \in Tasks : \E passive \in BOOLEAN : declare_queue(p, passive)
    \/ \E p \in Tasks : \E ensure \in BOOLEAN : get_exchange(p, ensure)

\* The Channel with its entity operations.
EntitySpec == Init /\ [][NextEntities]_vars

\* The underlying channel answers or fails every request it was sent.
LiveSpec ==
    EntitySpec /\ \A p \in Tasks : WF_vars(request_ok(p) \/ request_fail(p))

----------------------------------------------------------------------------
\* Steps of a call, as seen from outside

\* Task p is inside the part of its call that the operation lock protects.
InCriticalSection(p) == pc[p] \in {"locked", "open", "closing"}

\* The call of task p returns or raises in this step.
Returns(p, name) == op[p] = name /\ pc[p] # "idle" /\ pc'[p] = "idle"

LifecycleErrors == {"AlreadyInitialized", "ClosedChannel", "NotOpened", "Closed"}

----------------------------------------------------------------------------
\* C1: at most one of initialize, close and reopen is inside its
\* lock-protected section at any time, and the task inside is the lock holder.
C1_MutualExclusion ==
    /\ Cardinality({p \in Tasks : InCriticalSection(p)}) <= 1
    /\ \A p \in Tasks : InCriticalSection(p) => operation_lock = p

\* A close waits on the lock while a reopen is inside its open sequence.
C1_Witness ==
    \E p, q \in Tasks :
        /\ op[p] = "reopen" /\ pc[p] = "open"
        /\ op[q] = "close" /\ pc[q] = "wait"

\* C2: an initialize call made while the ready latch is set (an earlier open
\* succeeded and no close has cleared the latch) raises "Already initialized"
\* on the spot and changes neither the channel state nor the lock.
C2_SecondInitializeFails ==
    [][\A p \in Tasks :
          (initialize(p) /\ is_initialized) =>
              /\ result'[p] = "AlreadyInitialized"
              /\ pc'[p] = "idle"
              /\ UNCHANGED <<chanState, operation_lock, waiters>>]_vars

\* One task initialized the channel, another then got "Already initialized",
\* and the channel is still open on the first handle.
C2_Witness ==
    \E p, q \in Tasks :
        /\ op[p] = "initialize" /\ result[p] = "ok"
        /\ op[q] = "initialize" /\ result[q] = "AlreadyInitialized"
        /\ pc[q] = "idle"
        /\ ready /\ ~_is_closed_by_user /\ _channel = 1 /\ uchan[2] = "unopened"

\* C3: the latch is set when initialize or reopen returns normally, and clear
\* when a close event has been handled by __on_close or when a close() call
\* that found the latch set returns normally.
C3_ReadyLatch ==
    [][/\ \A p \in Tasks :
            (Returns(p, "initialize") /\ result'[p] = "ok") => ready'
       /\ \A p \in Tasks :
            (Returns(p, "reopen") /\ result'[p] = "ok") => ready'
       /\ \A p \in Tasks :
            (/\ Returns(p, "close") /\ result'[p] = "ok"
             /\ (pc[p] = "closing" \/ is_initialized)) => ~ready'
       /\ \A h \in Handles :
            (on_close[h] = "running" /\ on_close'[h] = "finished") => ~ready'
      ]_vars

\* The channel was opened, closed by close(), and reopened: the latch is set
\* again on the second handle after the first one's close was handled.
C3_Witness ==
    \E p, q \in Tasks :
        /\ op[p] = "close" /\ result[p] = "ok"
        /\ op[q] = "reopen" /\ result[q] = "ok"
        /\ on_close[1] = "finished"
        /\ ready /\ _channel = 2

\* C4 as stated: no close() call reports an error, and a close() call made
\* after an earlier close() took effect leaves the channel as it was.
C4_CloseNeverFails ==
    [][\A p \in Tasks :
          Returns(p, "close") =>
              /\ result'[p] = "ok"
              /\ (_is_closed_by_user => UNCHANGED chanState)]_vars

\* C4 as amended: a close() call that finds the latch clear returns normally
\* and changes no channel state; a close() call that returns normally leaves
\* the latch clear, so every further close() is such a no-op; a close() call
\* raises only out of its request to the underlying channel (the request
\* failed, or self._channel was missing).
C4_CloseIdempotent ==
    [][\A p \in Tasks :
          Returns(p, "close") =>
              /\ (pc[p] = "locked" /\ ~is_initialized) =>
                     (result'[p] = "ok" /\ UNCHANGED chanState)
              /\ result'[p] = "ok" => ~ready'
              /\ result'[p] # "ok" =>
                     (pc[p] = "closing" \/ (is_initialized /\ _channel = NoChannel))
      ]_vars

\* Two close() calls returned normally on a channel that had been opened:
\* the one that closed the handle and one that found the latch clear.
C4_Witness ==
    \E p, q \in Tasks :
        /\ p # q
        /\ op[p] = "close" /\ result[p] = "ok"
        /\ op[q] = "close" /\ result[q] = "ok"
        /\ _is_closed_by_user /\ ~ready /\ uchan[1] = "closed"

\* C5: the accessor raises "not opened" while no underlying channel was ever
\* opened, raises "closed" while the channel is marked closed by user, and
\* returns the handle only when the latch is set, the channel is not marked
\* closed by user and the handle is open.
C5_AccessorReasons ==
    /\ (\A h \in Handles : uchan[h] = "unopened") => channel = "NotOpened"
    /\ _is_closed_by_user => channel = "Closed"
    /\ channel = "none" =>
           /\ ready /\ ~_is_closed_by_user
           /\ _channel # NoChannel /\ uchan[_channel] = "open"

\* An initialize call of task p stores a new underlying channel in this step.
InitializeOpens(p) ==
    Returns(p, "initialize") /\ pc[p] = "open" /\ _channel' # _channel

\* C6: while the channel is marked closed by user, an initialize call raises a
\* lifecycle error on the spot, and no initialize call, whenever it was
\* issued, stores a new underlying channel.
C6_NoOpenAfterUserClose ==
    [][\A p \in Tasks :
          /\ (initialize(p) /\ _is_closed_by_user) =>
                 (result'[p] \in LifecycleErrors /\ pc'[p] = "idle")
          /\ _is_closed_by_user => ~InitializeOpens(p)]_vars

\* Some initialize or reopen call is inside its open sequence.
Opening == \E q \in Tasks : op[q] \in {"initialize", "reopen"} /\ pc[q] = "open"

\* C7: an initialize call made while an open sequence is running, or while
\* the latch is set, raises "Already initialized"; an initialize call never
\* stores a new underlying channel over one that is open.
C7_SingleInitialize ==
    [][\A p \in Tasks :
          /\ (initialize(p) /\ (Opening \/ is_initialized)) =>
                 result'[p] = "AlreadyInitialized"
          /\ InitializeOpens(p) =>
                 (_channel = NoChannel \/ uchan[_channel] # "open")]_vars

\* C8: when a close() call that found the latch set ends, normally or with an
\* error, the channel is marked closed by user, is_closed is true and the
\* accessor raises; the mark is removed by reopen only.
C8_CloseAlwaysMarks ==
    [][/\ \A p \in Tasks :
            (Returns(p, "close") /\ (pc[p] = "closing" \/ is_initialized)) =>
                /\ _is_closed_by_user'
                /\ is_closed' = "True"
                /\ channel' \in {"NotOpened", "Closed"}
       /\ (_is_closed_by_user /\ ~_is_closed_by_user') =>
              \E p \in Tasks : op[p] = "reopen" /\ pc[p] = "locked"
      ]_vars

\* A close() call ended with the error of the underlying channel, the latch
\* is still set, the handle is still open, and the channel is marked closed.
C8_Witness ==
    \E p \in Tasks :
        /\ op[p] = "close" /\ pc[p] = "idle" /\ result[p] = "Error"
        /\ ready /\ _channel # NoChannel /\ uchan[_channel] = "open"
        /\ _is_closed_by_user

\* C9 as stated: every close() call leaves the channel marked closed by user,
\* and an initialize call made while it is marked raises a lifecycle error.
C9_CloseAlwaysClosedByUser ==
    [][\A p \in Tasks :
          /\ Returns(p, "close") => _is_closed_by_user'
          /\ (initialize(p) /\ _is_closed_by_user) =>
                 (result'[p] \in LifecycleErrors /\ pc'[p] = "idle")]_vars

\* C9 as amended: a close() call that finds the latch set leaves the channel
\* marked closed by user; one that finds it clear changes nothing and returns
\* normally; an initialize call made while the channel is marked closed by
\* user raises a lifecycle error on the spot and changes nothing.
C9_CloseFromLatchSet ==
    [][\A p \in Tasks :
          /\ Returns(p, "close") =>
                 IF pc[p] = "closing" \/ is_initialized
                 THEN _is_closed_by_user'
                 ELSE result'[p] = "ok" /\ UNCHANGED chanState
          /\ (initialize(p) /\ _is_closed_by_user) =>
                 /\ result'[p] \in {"AlreadyInitialized", "ClosedChannel"}
                 /\ pc'[p] = "idle"
                 /\ UNCHANGED <<chanState, operation_lock, waiters>>]_vars

\* A close() call marked the channel, the latch is clear, and a later
\* initialize call was refused with "Can't initialize closed channel".
C9_Witness ==
    \E p, q \in Tasks :
        /\ op[p] = "close" /\ result[p] = "ok"
        /\ op[q] = "initialize" /\ result[q] = "ClosedChannel" /\ pc[q] = "idle"
        /\ _is_closed_by_user /\ ~ready

\* The lifecycle state of the Channel, read off its fields: Ready when the
\* latch is set on an open handle and the channel is not marked closed by
\* user; otherwise Opening while an open sequence runs.
State ==
    IF _is_closed_by_user THEN "ClosedByUser"
    ELSE IF ready /\ _channel # NoChannel /\ uchan[_channel] = "open" THEN "Ready"
    ELSE IF Opening THEN "Opening"
    ELSE IF \A h \in Handles : uchan[h] = "unopened" THEN "Uninitialized"
    ELSE "ClosedByPeer"

\* C10: in every state other than Ready, set_qos, queue_delete,
\* exchange_delete and flow raise ChannelInvalidStateError and send nothing.
C10_InvalidStateUnlessReady ==
    [][\A p \in Tasks : \A name \in DeclarativeOps :
          (Forward(p, name) /\ State # "Ready") =>
              /\ result'[p] \in {"NotOpened", "Closed"}
              /\ pc'[p] = "idle"
              /\ target'[p] = NoChannel]_vars

----------------------------------------------------------------------------
\* transaction

\* transaction without the test of publisher_confirms.
transaction_without_test(p) ==
    /\ pc[p] = "idle"
    /\ Call
    /\ op' = [op EXCEPT ![p] = "transaction"]
    /\ exc' = [exc EXCEPT ![p] = "none"]
    /\ result' = [result EXCEPT ![p] = "ok"]
    /\ entity' = [entity EXCEPT ![p] = "transaction"]
    /\ UNCHANGED <<chanState, operation_lock, waiters, pc, target>>

\* Raises when publisher confirms are enabled, otherwise returns
\* Transaction(self); there is no await and no test of the lifecycle.
transaction(p) ==
    /\ pc[p] = "idle"
    /\ Call
    /\ op' = [op EXCEPT ![p] = "transaction"]
    /\ exc' = [exc EXCEPT ![p] = "none"]
    /\ IF publisher_confirms
       THEN /\ result' = [result EXCEPT ![p] = "ConfirmsEnabled"]
            /\ entity' = [entity EXCEPT ![p] = "none"]
       ELSE /\ result' = [result EXCEPT ![p] = "ok"]
            /\ entity' = [entity EXCEPT ![p] = "transaction"]
    /\ UNCHANGED <<chanState, operation_lock, waiters, pc, target>>

\* A Channel constructed with either value of publisher_confirms.
InitConfirms ==
    /\ ready = FALSE
    /\ operation_lock = NoTask
    /\ waiters = <<>>
    /\ _is_closed_by_user = FALSE
    /\ _channel = NoChannel
    /\ uchan = [h \in Handles |-> "unopened"]
    /\ on_close = [h \in Handles |-> "idle"]
    /\ on_return_callbacks = {}
    /\ pc = [p \in Tasks |-> "idle"]
    /\ op = [p \in Tasks |-> "none"]
    /\ result = [p \in Tasks |-> "none"]
    /\ target = [p \in Tasks |-> NoChannel]
    /\ calls = 0
    /\ publisher_confirms \in BOOLEAN
    /\ close_reason = [h \in Handles |-> "unasked"]
    /\ exc = [p \in Tasks |-> "none"]
    /\ entity = [p \in Tasks |-> "none"]

NextTransaction ==
    \/ Next
    \/ \E p \in Tasks : transaction(p)

\* The Channel with transaction(), for both values of publisher_confirms.
TransactionSpec == InitConfirms /\ [][NextTransaction]_vars

----------------------------------------------------------------------------
\* The lifecycle operations under fair scheduling: a task that holds the
\* lock runs, and the open sequence or close request it waits for terminates
\* (it succeeds, fails or is cancelled).
FairSpec ==
    /\ Spec
    /\ \A p \in Tasks :
          /\ WF_vars(initialize_open(p) \/ reopen_open(p) \/ close_locked(p))
          /\ WF_vars(initialize_done(p) \/ initialize_fail(p))
          /\ WF_vars(reopen_done(p) \/ reopen_fail(p))
          /\ WF_vars(close_done(p) \/ close_fail(p))

----------------------------------------------------------------------------
\* ChannelContext

\* "if not self.is_initialized: await self.initialize()", then "return self".
__aenter__(p) ==
    IF is_initialized
    THEN /\ pc[p] = "idle"
         /\ Call
         /\ op' = [op EXCEPT ![p] = "__aenter__"]
         /\ result' = [result EXCEPT ![p] = "ok"]
         /\ Plain(p)
         /\ UNCHANGED <<chanState, operation_lock, waiters, pc, target>>
    ELSE initialize(p)

\* "return await self.close(exc_val)": close called with the exception e
\* that left the scope ("none" when the scope ended normally).
__aexit__(p, e) ==
    /\ pc[p] = "idle"
    /\ Call
    /\ op' = [op EXCEPT ![p] = "close"]
    /\ result' = [result EXCEPT ![p] = "none"]
    /\ Acquire(p)
    /\ exc' = [exc EXCEPT ![p] = e]
    /\ entity' = [entity EXCEPT ![p] = "none"]
    /\ UNCHANGED <<chanState, target>>

NextScope ==
    \/ Next
    \/ \E p \in Tasks : __aenter__(p)
    \/ \E p \in Tasks : \E e \in {"none", "exception"} : __aexit__(p, e)

\* The Channel used as a scope.
ScopeSpec == Init /\ [][NextScope]_vars

----------------------------------------------------------------------------
\* Task p starts a declarative call in this step.
DeclarativeCall(p) ==
    \/ set_qos(p) \/ queue_delete(p) \/ exchange_delete(p) \/ flow(p)
    \/ \E passive \in BOOLEAN : declare_exchange(p, passive)
    \/ \E passive \in BOOLEAN : declare_queue(p, passive)
    \/ \E ensure \in BOOLEAN : get_exchange(p, ensure)

\* A close() is waiting for the close request it sent to the handle.
CloseInFlight == \E q \in Tasks : op[q] = "close" /\ pc[q] = "closing"

----------------------------------------------------------------------------
\* C12: transaction() raises the configuration error exactly when
\* publisher_confirms is true; otherwise it returns a Transaction, whatever
\* the lifecycle state; either way it returns at once and changes no state
\* of the Channel, its handles or its lock.
C12_TransactionIffNoConfirms ==
    [][\A p \in Tasks :
         transaction(p)
             => /\ pc'[p] = "idle"
                /\ result'[p] = "ConfirmsEnabled" <=> publisher_confirms
                /\ ~publisher_confirms
                       => result'[p] = "ok" /\ entity'[p] = "transaction"
                /\ UNCHANGED <<chanState, operation_lock, waiters>>]_vars

\* transaction() has returned a Transaction on a Channel that is closed by
\* the user.
C12_Witness ==
    \E p \in Tasks :
        /\ op[p] = "transaction" /\ result[p] = "ok"
        /\ entity[p] = "transaction"
        /\ ~publisher_confirms
        /\ _is_closed_by_user

----------------------------------------------------------------------------
\* What the caller and the broker see of the call of task p: where the call
\* is, its outcome, the handle its request went to, the entity declared.
Observed(p) == <<pc[p], result[p], target[p], entity[p]>>

\* C13: from every state get_exchange(ensure=True) and
\* declare_exchange(passive=True) do the same thing: both raise the
\* accessor's error, or both send the passive declaration of the same
\* Exchange to the current handle (whose answer does not depend on the
\* caller), and neither changes the Channel; get_exchange(ensure=False)
\* returns a passive Exchange at once, in every state, with no request.
C13_GetExchangeIsPassiveDeclare ==
    [][\A p \in Tasks :
         /\ get_exchange(p, TRUE) \/ declare_exchange(p, TRUE)
                => /\ Observed(p)' =
                         IF channel # "none"
                         THEN <<"idle", channel, target[p], "exchange_passive">>
                         ELSE <<"inflight", "none", _channel, "exchange_passive">>
                   /\ UNCHANGED <<chanState, operation_lock, waiters>>
         /\ get_exchange(p, FALSE)
                => /\ Observed(p)' = <<"idle", "ok", target[p], "exchange_passive">>
                   /\ UNCHANGED <<chanState, operation_lock, waiters>>]_vars

\* get_exchange(ensure=True) of one task and declare_exchange(passive=True)
\* of the other have the same request in flight on the same handle.
C13_Witness ==
    \E p, q \in Tasks :
        /\ op[p] = "get_exchange" /\ op[q] = "declare_exchange"
        /\ pc[p] = "inflight" /\ pc[q] = "inflight"
        /\ entity[p] = "exchange_passive" /\ entity[q] = entity[p]
        /\ target[p] = target[q]

----------------------------------------------------------------------------
\* C14: entering the scope runs initialize exactly when the latch is clear,
\* and otherwise returns the Channel at once; leaving the scope calls close,
\* and the close request that close sends to the handle carries the
\* exception that left the scope as its reason.
C14_ScopeForwardsReason ==
    /\ [][\A p \in Tasks :
             /\ __aenter__(p)
                    => IF is_initialized
                       THEN /\ pc'[p] = "idle" /\ result'[p] = "ok"
                            /\ UNCHANGED <<chanState, operation_lock, waiters>>
                       ELSE op'[p] = "initialize"
             /\ \A e \in {"none", "exception"} :
                    __aexit__(p, e) => op'[p] = "close" /\ exc'[p] = e]_vars
    /\ [](\A p \in Tasks :
             pc[p] = "closing" => close_reason[target[p]] = exc[p])

----------------------------------------------------------------------------
\* The lifecycle state of the Channel: the latch, the flag, the handle, the
\* handles that carry the return bridge, and the handles' own state.
LifecycleState ==
    <<ready, _is_closed_by_user, _channel, on_return_callbacks, uchan, on_close>>

\* A step of a declarative call of task p: the call itself, or the answer
\* or failure (rejection, timeout) of its request.
DeclarativeStep(p) ==
    \/ DeclarativeCall(p)
    \/ op[p] \in DeclarativeOps /\ (request_ok(p) \/ request_fail(p))

\* C15: no step of a declarative call (issued, answered, rejected or timed
\* out) changes the lifecycle state; every change of it is a step of
\* initialize, reopen or close inside the lock, or a close event of a handle.
C15_DeclarativeFrame ==
    [][/\ \A p \in Tasks : DeclarativeStep(p) => UNCHANGED LifecycleState
       /\ LifecycleState' # LifecycleState
              => \/ \E p \in Tasks : op[p] \in LifecycleOps /\ InCriticalSection(p)
                 \/ \E h \in Handles : peer_close(h) \/ __on_close(h)]_vars

\* A declarative request was rejected and the Channel is still Ready on the
\* handle it was sent to.
C15_Witness ==
    \E p \in Tasks :
        /\ op[p] \in DeclarativeOps /\ pc[p] = "idle" /\ result[p] = "Error"
        /\ State = "Ready"

----------------------------------------------------------------------------
\* C16: while the close callbacks of a close event are being dispatched the
\* latch is still set, and the handler clears the latch when the dispatch
\* ends, whether it returned or raised.
C16_LatchSetWhileDispatching ==
    /\ [](\A h \in Handles : on_close[h] = "running" => ready)
    /\ [][\A h \in Handles : __on_close(h) => ~ready']_vars

----------------------------------------------------------------------------
\* C17: whenever the readiness check passes (latch set, not closed by the
\* user) the Channel holds a handle.
C17_ReadyHasHandle ==
    ready /\ ~_is_closed_by_user => _channel # NoChannel

----------------------------------------------------------------------------
\* C18: whenever the Channel is Ready the return bridge is registered on its
\* current handle.
C18_BridgeOnCurrentHandle ==
    State = "Ready" => _channel \in on_return_callbacks

----------------------------------------------------------------------------
\* The handle h has been replaced: it was opened and is no longer the
\* handle of the Channel, which holds an open one.
Replaced(h) ==
    /\ uchan[h] # "unopened"
    /\ _channel # NoChannel /\ _channel # h
    /\ uchan[_channel] = "open"

\* The last lifecycle call to return was a successful reopen.
ReopenReturned ==
    /\ \E p \in Tasks : op[p] = "reopen" /\ pc[p] = "idle" /\ result[p] = "ok"
    /\ \A q \in Tasks : op[q] # "initialize"

\* C19: once reopen has returned, the close handler of a handle that was
\* replaced does not clear the latch of the open handle that replaced it.
C19_StaleCloseKeepsLatch ==
    [][\A h \in Handles :
         __on_close(h) /\ Replaced(h) /\ ReopenReturned => ready' = ready]_vars

----------------------------------------------------------------------------
\* C20: the lock is held only by a task inside initialize, reopen or close;
\* the step in which such a call ends (success, error or cancellation of the
\* open sequence or of the close request) gives the lock up; and every call
\* waiting for the lock eventually holds it.
C20_LockNeverLeftHeld ==
    /\ [](\A p \in Tasks : operation_lock = p => InCriticalSection(p))
    /\ [][\A p \in Tasks :
             InCriticalSection(p) /\ pc'[p] = "idle" => operation_lock' # p]_vars
    /\ \A p \in Tasks : (pc[p] = "wait") ~> (pc[p] = "locked")

\* A close() ended with an error from its close request and the lock is
\* now held by the other task.
C20_Witness ==
    \E p, q \in Tasks :
        /\ op[p] = "close" /\ pc[p] = "idle" /\ result[p] = "Error"
        /\ q # p /\ pc[q] = "locked" /\ operation_lock = q

====
